---- MODULE Spec2Model ----
(***************************************************************************)
(* A model of the AMM discovery and synchronisation engine of amms-rs:     *)
(*   src/src/sync/mod.rs           sync_amms, populate_amms,               *)
(*                                 amms_are_congruent, remove_empty_amms   *)
(*   src/src/sync/checkpoint.rs    sync_amms_from_checkpoint and helpers   *)
(*   src/src/amm/uniswap_v2/factory.rs   registry enumeration              *)
(*                                                                         *)
(* Two specifications share the variables:                                 *)
(*   Spec      the sync orchestrator (genesis sync and resume) running    *)
(*             against a chain that keeps growing;                         *)
(*   SpecEnum  the registry enumeration loop of                            *)
(*             get_all_pairs_via_batched_calls with the real batch width.  *)
(***************************************************************************)
EXTENDS Integers, Sequences, FiniteSets, Bags, TLC

(***************************************************************************)
(* Bounds of the model.                                                    *)
(***************************************************************************)
MaxBlock == 2
MaxPools == 2
MaxWrites == 2
MaxPairsLength == 7662
MaxChunks == 11

(***************************************************************************)
(* Program constants.                                                      *)
(***************************************************************************)
\* factory.rs:73   let step = 766;
PAIRS_STEP == 766
\* mod.rs:124      let step = 127;  (also factory.rs:189)
V2_BATCH == 127
\* mod.rs:142      let step = 76;
V3_BATCH == 76
\* checkpoint.rs:200   amms.chunks(50_000)
CHECKPOINT_CHUNK == 50000
\* amm/factory.rs (not part of the sources at hand): the cap of in-flight tasks
TASK_LIMIT == 10

\* H160::zero()
ZeroAddress == 0

VARIABLES
    \* ---- the chain (the RPC collaborator's answers)
    height,         \* the current block number
    pools,          \* pools created so far; the address of pools[i] is i
    \* ---- the checkpoint file
    disk,
    \* ---- one call of sync_amms / sync_amms_from_checkpoint
    pc,             \* "idle", "join" (tasks spawned, joining), "returned"
    call,           \* the arguments of the running call
    current_block,  \* B*, read once at the start of the call
    handles,        \* the JoinSet: the spawned tasks not yet joined
    aggregated,     \* aggregated_amms
    result,         \* what the call returned
    disk0,          \* the checkpoint file as it was when the call started
    writes,         \* number of checkpoints the calls have written
    last_write,     \* the catalog and block handed to the construct_checkpoint that
                    \* wrote the file as it is (NoWrite: no file, or a torn one)
    events,         \* what happened in this call: "rpc_error" (an RPC of a task failed),
                    \* "task_error", "task_panic" (a task ended so), "io_error",
                    \* "tasks_aborted" (the JoinSet was dropped with tasks in it
                    \* before the join loop)
    batch_reads,    \* batched reads (get_pairs_batch, get_amm_data_batch) issued in this call
    \* ---- get_all_pairs_via_batched_calls (SpecEnum)
    e_pc,           \* "loop", "drain", "done", "failed", "off"
    pairs_length,   \* N, read once
    e_i,            \* the loop variable of (0..N).step_by(step)
    idx_from,
    idx_to,
    e_handles,      \* in-flight get_pairs_batch requests, as <<from, to>>
    e_requests,     \* every range requested so far, in spawn order
    e_amms,         \* the ranges whose addresses were pushed to amms, as a bag: the
                    \* order in amms is the order in which the requests completed
    \* ---- one call of a hydration entry point (SpecHydrate)
    h_pc,           \* "off", "start", "spawn", "join", "seq", "done", "failed"
    h_call,         \* the entry point and its arguments
    h_chunks,       \* the chunks of the slice, in slice order
    h_next,         \* the chunk the for loop is at
    h_handles,      \* the JoinSet: the chunks whose task is spawned and not yet joined
    h_updated,      \* updated_amms, as the bag of the chunks it was extended with
    h_input,        \* the chunks of the caller's slice that were hydrated in place
    h_spawned,      \* tasks spawned so far
    h_rpcs,         \* batched RPCs issued so far
    h_result,       \* "none", "ok", "IncongruentAMMs", "rpc_error", "panic"
    \* ---- the steps of the tasks of a sync, one by one (SpecLifecycle)
    agg_steps,      \* for every pool of aggregated_amms, the steps its task took
    ser_steps       \* for every pool of the checkpoint a sync wrote last, the steps
                    \* it went through in that sync

chainVars == <<height, pools>>
syncVars  == <<disk, pc, call, current_block, handles, aggregated, result, disk0, writes,
               last_write, events, batch_reads>>
enumVars  == <<e_pc, pairs_length, e_i, idx_from, idx_to, e_handles, e_requests, e_amms>>
hydrVars  == <<h_pc, h_call, h_chunks, h_next, h_handles, h_updated, h_input, h_spawned,
               h_rpcs, h_result>>
lifeVars  == <<agg_steps, ser_steps>>
vars      == <<height, pools, disk, pc, call, current_block, handles, aggregated,
               result, disk0, writes, last_write, events, batch_reads, e_pc, pairs_length, e_i, idx_from, idx_to,
               e_handles, e_requests, e_amms, h_pc, h_call, h_chunks, h_next, h_handles,
               h_updated, h_input, h_spawned, h_rpcs, h_result, agg_steps, ser_steps>>

(***************************************************************************)
(* Sequence helpers.                                                       *)
(***************************************************************************)
Min(a, b) == IF a < b THEN a ELSE b

RECURSIVE Concat(_)
Concat(ss) == IF ss = <<>> THEN <<>> ELSE Head(ss) \o Concat(Tail(ss))

RemoveAt(s, k) == SubSeq(s, 1, k - 1) \o SubSeq(s, k + 1, Len(s))

Range(s) == {s[k] : k \in 1..Len(s)}

\* a chunking that leaves out the last element of every chunk
RECURSIVE ChunksLossy(_, _)
ChunksLossy(s, n) ==
    IF s = <<>> THEN <<>>
    ELSE <<SubSeq(s, 1, Min(n, Len(s)) - 1)>>
         \o ChunksLossy(SubSeq(s, Min(n, Len(s)) + 1, Len(s)), n)

\* slice::chunks(n): consecutive chunks of n elements, the last one shorter
RECURSIVE Chunks(_, _)
Chunks(s, n) ==
    IF s = <<>> THEN <<>>
    ELSE <<SubSeq(s, 1, Min(n, Len(s)))>> \o Chunks(SubSeq(s, Min(n, Len(s)) + 1, Len(s)), n)

(***************************************************************************)
(* Registry enumeration: the index arithmetic of                           *)
(* get_all_pairs_via_batched_calls (factory.rs:73-104).                    *)
(***************************************************************************)
\* factory.rs:75-79
InitIdxTo(n) == IF PAIRS_STEP > n THEN n ELSE PAIRS_STEP

\* factory.rs:100-104
NextIdxTo(to, n) == IF to + PAIRS_STEP > n THEN n - 1 ELSE to + PAIRS_STEP

\* the ranges requested by the loop, one per iteration of (0..n).step_by(step)
RECURSIVE PairRangesFrom(_, _, _, _)
PairRangesFrom(i, from, to, n) ==
    IF i >= n THEN <<>>
    ELSE <<<<from, to>>>> \o PairRangesFrom(i + PAIRS_STEP, to, NextIdxTo(to, n), n)

PairRanges(n) == PairRangesFrom(0, 0, InitIdxTo(n), n)

(***************************************************************************)
(* The data model.  An AMM is a record; kind is the variant tag            *)
(* ("v2" UniswapV2Pool, "v3" UniswapV3Pool, "vault" ERC4626Vault).  For a  *)
(* vault token_a is vault_token and token_b is asset_token.  A factory is  *)
(* a record with the tag "v2" or "v3"; a UniswapV3Factory has no fee.      *)
(***************************************************************************)
V2Factory == [kind |-> "v2", address |-> 101, creation_block |-> 0, fee |-> 3]
V3Factory == [kind |-> "v3", address |-> 102, creation_block |-> 0, fee |-> 0]
Factories == {V2Factory, V3Factory}

\* the factory lists a caller passes to sync_amms
FactoryLists == {<<V2Factory>>, <<V3Factory>>, <<V2Factory, V3Factory>>}

\* the token pairs a pool may be deployed with: a live pair and the two
\* degenerate ones
TokenPairs == {<<11, 12>>, <<ZeroAddress, 12>>, <<11, ZeroAddress>>}

\* the log-scan step a caller passes
Steps == {2}

\* a vault the caller may have put into a checkpoint by hand
Vault == [kind |-> "vault", address |-> 201, token_a |-> 21, token_b |-> 22, fee |-> 0]

\* UniswapV2Pool { address, ..Default::default() }   (factory.rs:125-128)
EmptyV2Pool(addr) ==
    [kind |-> "v2", address |-> addr, token_a |-> ZeroAddress, token_b |-> ZeroAddress, fee |-> 0]

\* the checkpoint file: absent, unreadable (a write that failed half way), or
\* the JSON of a Checkpoint
NoCheckpoint == [state |-> "absent"]
CorruptCheckpoint == [state |-> "corrupt"]

\* Checkpoint::new (checkpoint.rs:35-47)
Checkpoint(timestamp, block_number, factories, amms) ==
    [state |-> "ok", timestamp |-> timestamp, block_number |-> block_number,
     factories |-> factories, amms |-> amms]

\* what SystemTime::now() may read, in seconds since the epoch: the system
\* clock is not monotonic, a later reading may be the smaller one
WallClock == {1, 2}

(***************************************************************************)
(* The chain, as the RPC collaborator answers.                             *)
(***************************************************************************)
\* the addresses of the pools of factory f, in creation order: allPairs
AllPairs(f) ==
    LET RECURSIVE Go(_)
        Go(i) == IF i > Len(pools) THEN <<>>
                 ELSE (IF pools[i].factory = f.address THEN <<i>> ELSE <<>>) \o Go(i + 1)
    IN Go(1)

\* get_pairs_batch_request(factory, from, to): allPairs[from..to), 0-based
GetPairsBatch(f, from, to) ==
    LET all == AllPairs(f)
    IN  [k \in 1..(IF to > from THEN Min(to, Len(all)) - from ELSE 0) |-> all[from + k]]

\* get_logs: the pool-created logs of factory f in the blocks from..to
GetLogs(f, from, to) ==
    LET RECURSIVE Go(_)
        Go(i) == IF i > Len(pools) THEN <<>>
                 ELSE (IF /\ pools[i].factory = f.address
                          /\ pools[i].block >= from
                          /\ pools[i].block <= to
                       THEN <<i>> ELSE <<>>) \o Go(i + 1)
    IN Go(1)

\* the token pair the chain holds for a pool address
ChainTokens(addr) ==
    IF addr \in 1..Len(pools) THEN <<pools[addr].token_a, pools[addr].token_b>>
    ELSE <<ZeroAddress, ZeroAddress>>

(***************************************************************************)
(* Discovery.                                                              *)
(***************************************************************************)
\* get_all_pairs_via_batched_calls (factory.rs:60-117) as a function of the
\* registry: one get_pairs_batch per range, every address an empty pool.
\* SpecEnum below runs the same loop step by step.
GetAllPairsViaBatchedCalls(f) ==
    LET ranges == PairRanges(Len(AllPairs(f)))
        addrs  == Concat([k \in 1..Len(ranges) |-> GetPairsBatch(f, ranges[k][1], ranges[k][2])])
    IN  [amms  |-> [k \in 1..Len(addrs) |-> EmptyV2Pool(addrs[k])],
         reads |-> Len(ranges)]

\* the block windows of width step over [from, to]
RECURSIVE Windows(_, _, _)
Windows(from, to, step) ==
    IF from > to THEN <<>>
    ELSE <<<<from, Min(from + step - 1, to)>>>> \o Windows(from + step, to, step)

\* new_empty_amm_from_log (factory.rs:159-172): address and tokens from the
\* event, everything else zero
NewEmptyAmmFromLog(f, addr) ==
    [kind |-> f.kind, address |-> addr, token_a |-> ChainTokens(addr)[1],
     token_b |-> ChainTokens(addr)[2], fee |-> 0]

\* get_all_pools_from_logs(from_block, to_block, step)
GetAllPoolsFromLogs(f, from, to, step) ==
    LET ws    == Windows(from, to, step)
        addrs == Concat([k \in 1..Len(ws) |-> GetLogs(f, ws[k][1], ws[k][2])])
    IN  [amms  |-> [k \in 1..Len(addrs) |-> NewEmptyAmmFromLog(f, addrs[k])],
         reads |-> 0]

\* Factory::get_all_amms(to_block, middleware, step): the registry for a
\* UniswapV2Factory (factory.rs:174-181, to_block and step unused), the logs
\* from the creation block for a UniswapV3Factory
GetAllAmms(f, to_block, step) ==
    IF f.kind = "v2" THEN GetAllPairsViaBatchedCalls(f)
    ELSE GetAllPoolsFromLogs(f, f.creation_block, to_block, step)

(***************************************************************************)
(* Hydration.                                                              *)
(***************************************************************************)
\* get_amm_data_batch_request: every pool of the chunk gets its on-chain
\* state; the fee is not on chain and stays as it is
GetAmmDataBatch(chunk) ==
    [k \in 1..Len(chunk) |->
        IF chunk[k].kind = "vault" THEN chunk[k]
        ELSE [chunk[k] EXCEPT !.token_a = ChainTokens(chunk[k].address)[1],
                              !.token_b = ChainTokens(chunk[k].address)[2]]]

\* amms_are_congruent (mod.rs:97-106); the caller must not pass an empty
\* slice: amms[0] panics
AmmsAreCongruent(amms) == \A k \in 1..Len(amms) : amms[k].kind = amms[1].kind

\* the batch size populate_amms picks for the variant (mod.rs:122-172)
BatchSize(kind) == CASE kind = "v2" -> V2_BATCH
                     [] kind = "v3" -> V3_BATCH
                     [] OTHER       -> 1

\* populate_amms (mod.rs:109-186) with every RPC answering
PopulateAmms(amms) ==
    IF amms = <<>> THEN [st |-> "panic", amms |-> <<>>, reads |-> 0]
    ELSE IF ~AmmsAreCongruent(amms) THEN [st |-> "err", amms |-> <<>>, reads |-> 0]
    ELSE LET chunks == Chunks(amms, BatchSize(amms[1].kind))
         IN  [st    |-> "ok",
              amms  |-> Concat([k \in 1..Len(chunks) |-> GetAmmDataBatch(chunks[k])]),
              reads |-> Len(chunks)]

\* Factory::populate_amm_data (factory.rs:183-194 for UniswapV2Factory):
\* the chunks one after the other, no congruence check
PopulateAmmData(f, amms) ==
    LET chunks == Chunks(amms, BatchSize(f.kind))
    IN  [st    |-> "ok",
         amms  |-> Concat([k \in 1..Len(chunks) |-> GetAmmDataBatch(chunks[k])]),
         reads |-> Len(chunks)]

\* a remove_empty_amms whose test looks at token_a alone
IsEmptyAmmTokenA(amm) == amm.token_a = ZeroAddress

\* the test of remove_empty_amms (mod.rs:194, 199, 204)
IsEmptyAmm(amm) == amm.token_a = ZeroAddress \/ amm.token_b = ZeroAddress

\* remove_empty_amms (mod.rs:188-212)
RemoveEmptyAmms(amms) == SelectSeq(amms, LAMBDA amm : ~IsEmptyAmm(amm))

\* mod.rs:62-69
StampFee(f, amms) ==
    IF f.kind = "v2"
    THEN [k \in 1..Len(amms) |->
            IF amms[k].kind = "v2" THEN [amms[k] EXCEPT !.fee = f.fee] ELSE amms[k]]
    ELSE amms

\* sort_amms (checkpoint.rs:223-236)
SortAmms(amms) ==
    [v2    |-> SelectSeq(amms, LAMBDA amm : amm.kind = "v2"),
     v3    |-> SelectSeq(amms, LAMBDA amm : amm.kind = "v3"),
     vault |-> SelectSeq(amms, LAMBDA amm : amm.kind = "vault")]

(***************************************************************************)
(* Tasks.  A task is what a handles.spawn(async move { ... }) closure      *)
(* holds: its factory, its block range, its vector of AMMs and where it    *)
(* stands: "discover", "populate", then "ok", "err" or "panic".  Spec runs  *)
(* a task in one step; SpecLifecycle runs it statement by statement        *)
(* ("prune" and "stamp" lie between "populate" and "ok") and keeps in      *)
(* steps what the task has done to its vector so far.                      *)
(***************************************************************************)
Task(kind, f, from, to, amms, st) ==
    [kind |-> kind, factory |-> f, from_block |-> from, to_block |-> to, amms |-> amms, st |-> st,
     steps |-> <<>>]

\* sync_amms, mod.rs:41-73: one task per factory
FactoryTasks(factories, block) ==
    [k \in 1..Len(factories) |->
        Task("factory", factories[k], factories[k].creation_block, block, <<>>, "discover")]

\* get_new_amms_from_range, checkpoint.rs:136-174: one log-scan task per factory
GetNewAmmsFromRange(factories, from_block, to_block) ==
    [k \in 1..Len(factories) |->
        Task("scan", factories[k], from_block, to_block, <<>>, "discover")]

\* the placeholder factory of batch_sync_amms_from_checkpoint, checkpoint.rs:182-195
PlaceholderFactory(kind) == [kind |-> kind, address |-> ZeroAddress, creation_block |-> 0, fee |-> 0]

\* batch_sync_amms_from_checkpoint, checkpoint.rs:176-221: one re-hydration
\* task per chunk of 50,000; nothing for vaults; amms is not empty
BatchSyncAmmsFromCheckpoint(amms, block) ==
    IF amms[1].kind = "vault" THEN [st |-> "ok", tasks |-> <<>>]
    ELSE IF AmmsAreCongruent(amms)
    THEN LET chunks == Chunks(amms, CHECKPOINT_CHUNK)
         IN  [st |-> "ok",
              tasks |-> [k \in 1..Len(chunks) |->
                  Task("rehydrate", PlaceholderFactory(amms[1].kind), block, block,
                       chunks[k], "populate")]]
    ELSE [st |-> "err", tasks |-> <<>>]

\* the discovery step of a task
Discover(t, step) ==
    IF t.kind = "factory" THEN GetAllAmms(t.factory, t.to_block, step)
    ELSE GetAllPoolsFromLogs(t.factory, t.from_block, t.to_block, step)

\* whether the discovery step of a task issues an RPC at all (the registry
\* length is always read; a log scan reads one window at least if from <= to)
DiscoverIssuesRpc(t) ==
    (t.kind = "factory" /\ t.factory.kind = "v2") \/ t.from_block <= t.to_block

\* the rest of a task after discovery: hydration, pruning, stamping
\*   factory task    mod.rs:50-71
\*   re-hydration    checkpoint.rs:203-212
\*   log-scan task   checkpoint.rs:161-169
Populate(t) ==
    LET r == IF t.kind = "scan" THEN PopulateAmmData(t.factory, t.amms) ELSE PopulateAmms(t.amms)
    IN  IF r.st # "ok" THEN [st |-> r.st, amms |-> <<>>, reads |-> 0]
        ELSE [st    |-> "ok",
              amms  |-> IF t.kind = "factory" THEN StampFee(t.factory, RemoveEmptyAmms(r.amms))
                        ELSE RemoveEmptyAmms(r.amms),
              reads |-> r.reads]

\* a whole task, from where it stands to its end
RunTask(t, step) ==
    LET d == IF t.st = "discover" THEN Discover(t, step) ELSE [amms |-> t.amms, reads |-> 0]
        r == Populate([t EXCEPT !.amms = d.amms])
    IN  [st |-> r.st, amms |-> r.amms, reads |-> d.reads + r.reads]

\* whether a task issues an RPC at all, so that one can fail
IssuesRpc(t, step) ==
    \/ t.st = "discover" /\ DiscoverIssuesRpc(t)
    \/ RunTask(t, step).st = "ok" /\ RunTask(t, step).reads > 0

\* a join loop that takes the vector of a task that returned an error to be
\* empty instead of returning the error
JoinedSwallowsError(t) ==
    CASE t.st = "ok"    -> [kind |-> "ok",  cause |-> "",           amms |-> t.amms]
      [] t.st = "err"   -> [kind |-> "ok",  cause |-> "",           amms |-> <<>>]
      [] t.st = "panic" -> [kind |-> "err", cause |-> "JoinError",  amms |-> <<>>]

\* a join loop that skips a task whose join fails (`if let Ok(amms) = amms`)
JoinedSkipsPanic(t) ==
    CASE t.st = "ok"    -> [kind |-> "ok",  cause |-> "",           amms |-> t.amms]
      [] t.st = "err"   -> [kind |-> "err", cause |-> "TaskError",  amms |-> <<>>]
      [] t.st = "panic" -> [kind |-> "ok",  cause |-> "",           amms |-> <<>>]

\* what `amms??` makes of a joined task (mod.rs:76, checkpoint.rs:120): the
\* vector of a task that returned Ok, the task's error, or a JoinError for a
\* task that panicked (errors.rs:24-25, #[from] JoinError)
Joined(t) ==
    CASE t.st = "ok"    -> [kind |-> "ok",  cause |-> "",           amms |-> t.amms]
      [] t.st = "err"   -> [kind |-> "err", cause |-> "TaskError",  amms |-> <<>>]
      [] t.st = "panic" -> [kind |-> "err", cause |-> "JoinError",  amms |-> <<>>]

(***************************************************************************)
(* What a call returns.                                                    *)
(***************************************************************************)
NoResult == [kind |-> "none", cause |-> "", amms |-> <<>>, block |-> 0, factories |-> <<>>]
ErrResult(cause) == [kind |-> "err", cause |-> cause, amms |-> <<>>, block |-> 0, factories |-> <<>>]
PanicResult == [kind |-> "panic", cause |-> "todo", amms |-> <<>>, block |-> 0, factories |-> <<>>]
\* Ok((aggregated_amms, current_block)) of sync_amms, mod.rs:94
OkAmmsBlock(amms, block) ==
    [kind |-> "ok", cause |-> "", amms |-> amms, block |-> block, factories |-> <<>>]
\* Ok((checkpoint.factories, aggregated_amms)) of sync_amms_from_checkpoint, checkpoint.rs:133
OkFactoriesAmms(factories, amms) ==
    [kind |-> "ok", cause |-> "", amms |-> amms, block |-> 0, factories |-> factories]

\* a construct_checkpoint that stamps the block the chain is at when the file
\* is written instead of the block it is given
ConstructCheckpointAtHead(factories, amms, latest_block, now) ==
    Checkpoint(now, height, factories, amms)

\* a construct_checkpoint that adds the catalog to the one on file
ConstructCheckpointAppends(factories, amms, latest_block, now) ==
    Checkpoint(now, latest_block, factories,
               (IF disk.state = "ok" THEN disk.amms ELSE <<>>) \o amms)

\* construct_checkpoint (checkpoint.rs:272-288) when the write succeeds; now
\* is what SystemTime::now() reads; std::fs::write replaces the whole file
ConstructCheckpoint(factories, amms, latest_block, now) ==
    Checkpoint(now, latest_block, factories, amms)

\* deconstruct_checkpoint (checkpoint.rs:291-294)
DeconstructCheckpoint(file) ==
    IF file.state = "ok"
    THEN [kind |-> "ok", amms |-> file.amms, block |-> file.block_number]
    ELSE [kind |-> "err", amms |-> <<>>, block |-> 0]

NoWrite == [state |-> "none"]
LastWrite(amms, latest_block) == [state |-> "ok", amms |-> amms, block |-> latest_block]

\* a sync_amms_from_checkpoint without the todo!(): vaults are left out
ResumeSpawnSkipsVaults(checkpoint, block) ==
    LET sorted == SortAmms(checkpoint.amms)
        v2 == IF sorted.v2 # <<>> THEN BatchSyncAmmsFromCheckpoint(sorted.v2, block)
              ELSE [st |-> "ok", tasks |-> <<>>]
        v3 == IF sorted.v3 # <<>> THEN BatchSyncAmmsFromCheckpoint(sorted.v3, block)
              ELSE [st |-> "ok", tasks |-> <<>>]
    IN  IF v2.st # "ok" \/ v3.st # "ok" THEN [st |-> "err", tasks |-> <<>>]
        ELSE [st    |-> "ok",
              tasks |-> v2.tasks \o v3.tasks
                        \o GetNewAmmsFromRange(checkpoint.factories, checkpoint.block_number, block)]

\* sync_amms_from_checkpoint, checkpoint.rs:73-117: what is spawned for a
\* checkpoint read at block; todo!() panics on a vault after the v2 and v3
\* re-hydration tasks were spawned
ResumeSpawn(checkpoint, block) ==
    LET sorted == SortAmms(checkpoint.amms)
        v2 == IF sorted.v2 # <<>> THEN BatchSyncAmmsFromCheckpoint(sorted.v2, block)
              ELSE [st |-> "ok", tasks |-> <<>>]
        v3 == IF sorted.v3 # <<>> THEN BatchSyncAmmsFromCheckpoint(sorted.v3, block)
              ELSE [st |-> "ok", tasks |-> <<>>]
    IN  IF v2.st # "ok" \/ v3.st # "ok" THEN [st |-> "err", tasks |-> <<>>]
        ELSE IF sorted.vault # <<>> THEN [st |-> "panic", tasks |-> v2.tasks \o v3.tasks]
        ELSE [st    |-> "ok",
              tasks |-> v2.tasks \o v3.tasks
                        \o GetNewAmmsFromRange(checkpoint.factories, checkpoint.block_number, block)]

(***************************************************************************)
(* The sync orchestrator: Spec.                                            *)
(***************************************************************************)
NoCall == [op |-> "none", factories |-> <<>>, path |-> "none", step |-> 1]

\* a constant-product pool as a caller may hold it
CallerPool == [kind |-> "v2", address |-> 1, token_a |-> 11, token_b |-> 12, fee |-> 3]

\* the <<factories, amms>> a caller passes to construct_checkpoint itself
CallerCheckpoints == {<<<<V2Factory>>, <<>>>>, <<<<V2Factory>>, <<CallerPool, Vault>>>>}

EnumOff ==
    /\ e_pc = "off"
    /\ pairs_length = 0
    /\ e_i = 0
    /\ idx_from = 0
    /\ idx_to = 0
    /\ e_handles = <<>>
    /\ e_requests = <<>>
    /\ e_amms = EmptyBag

NoHydrCall == [entry |-> "none", kind |-> "v2", n |-> 0, odd |-> 0, odd_kind |-> "v2",
               block |-> 0]

HydrOff ==
    /\ h_pc = "off"
    /\ h_call = NoHydrCall
    /\ h_chunks = <<>>
    /\ h_next = 0
    /\ h_handles = <<>>
    /\ h_updated = EmptyBag
    /\ h_input = {}
    /\ h_spawned = 0
    /\ h_rpcs = 0
    /\ h_result = "none"

SyncIdle ==
    /\ pc = "idle"
    /\ call = NoCall
    /\ current_block = 0
    /\ handles = <<>>
    /\ aggregated = <<>>
    /\ result = NoResult
    /\ writes = 0
    /\ last_write = NoWrite
    /\ events = {}
    /\ batch_reads = 0
    /\ agg_steps = <<>>
    /\ ser_steps = <<>>

Init ==
    /\ height = 0
    /\ pools = <<>>
    /\ disk = NoCheckpoint
    /\ disk0 = NoCheckpoint
    /\ SyncIdle
    /\ EnumOff
    /\ HydrOff

\* the chain grows by a block, which may hold a newly created pool
MineBlock ==
    /\ pc # "returned"
    /\ height < MaxBlock
    /\ height' = height + 1
    /\ \/ pools' = pools
       \/ /\ Len(pools) < MaxPools
          /\ \E f \in Factories, tk \in TokenPairs :
                pools' = Append(pools, [factory |-> f.address, block |-> height + 1,
                                        token_a |-> tk[1], token_b |-> tk[2]])
    /\ UNCHANGED <<syncVars, enumVars, hydrVars, lifeVars>>

\* construct_checkpoint (checkpoint.rs:272-288) called by the user of the
\* library with a catalog of its own and the current block
ConstructCheckpointCall ==
    /\ pc = "idle"
    /\ writes < MaxWrites
    /\ \E c \in CallerCheckpoints, now \in WallClock :
          /\ disk' = ConstructCheckpoint(c[1], c[2], height, now)
          /\ last_write' = LastWrite(c[2], height)
    /\ disk0' = disk'
    /\ writes' = writes + 1
    /\ UNCHANGED <<pc, call, current_block, handles, aggregated, result, events, batch_reads,
                   chainVars, enumVars, hydrVars, lifeVars>>

\* sync_amms, mod.rs:17-73: read the block number, spawn a task per factory
SyncAmms ==
    /\ pc = "idle"
    /\ writes < MaxWrites
    /\ \E factories \in FactoryLists, step \in Steps, block_ok \in BOOLEAN :
        /\ call' = [op |-> "sync_amms", factories |-> factories, path |-> "unread", step |-> step]
        /\ IF block_ok
           THEN /\ current_block' = height
                /\ handles' = FactoryTasks(factories, height)
                /\ pc' = "join"
                /\ result' = NoResult
                /\ events' = {}
           ELSE /\ current_block' = 0
                /\ handles' = <<>>
                /\ pc' = "returned"
                /\ result' = ErrResult("MiddlewareError")
                /\ events' = {"rpc_error"}
    /\ aggregated' = <<>>
    /\ disk0' = disk
    /\ batch_reads' = 0
    /\ UNCHANGED <<disk, writes, last_write, chainVars, enumVars, hydrVars, lifeVars>>

\* sync_amms_from_checkpoint, checkpoint.rs:51-117: read the block number and
\* the checkpoint, spawn the re-hydration and the log-scan tasks
SyncAmmsFromCheckpoint ==
    /\ pc = "idle"
    /\ writes < MaxWrites
    /\ \E step \in Steps, block_ok \in BOOLEAN :
        /\ call' = [op |-> "sync_amms_from_checkpoint", factories |-> <<>>,
                    path |-> "some", step |-> step]
        /\ IF ~block_ok
           THEN /\ current_block' = 0
                /\ handles' = <<>>
                /\ pc' = "returned"
                /\ result' = ErrResult("MiddlewareError")
                /\ events' = {"rpc_error"}
           ELSE IF disk.state # "ok"
           THEN /\ current_block' = height
                /\ handles' = <<>>
                /\ pc' = "returned"
                /\ result' = ErrResult("CheckpointError")
                /\ events' = {"io_error"}
           ELSE LET r == ResumeSpawn(disk, height)
                IN  /\ current_block' = height
                    /\ handles' = IF r.st = "ok" THEN r.tasks ELSE <<>>
                    /\ pc' = IF r.st = "ok" THEN "join" ELSE "returned"
                    /\ result' = CASE r.st = "ok"    -> NoResult
                                   [] r.st = "panic" -> PanicResult
                                   [] OTHER          -> ErrResult("IncongruentAMMs")
                    /\ events' = IF r.st # "ok" /\ r.tasks # <<>> THEN {"tasks_aborted"}
                                  ELSE {}
    /\ aggregated' = <<>>
    /\ disk0' = disk
    /\ batch_reads' = 0
    /\ UNCHANGED <<disk, writes, last_write, chainVars, enumVars, hydrVars, lifeVars>>

\* a join loop that assigns the joined vector instead of extending with it
JoinNextAssigns(k, t) ==
    LET j == Joined(t)
    IN  IF j.kind = "ok"
        THEN /\ aggregated' = j.amms
             /\ handles' = RemoveAt(handles, k)
             /\ UNCHANGED <<pc, result>>
        ELSE /\ aggregated' = <<>>
             /\ handles' = <<>>
             /\ pc' = "returned"
             /\ result' = ErrResult(j.cause)

\* handles.join_next() hands over a finished task (mod.rs:75-77,
\* checkpoint.rs:119-121): its pools are appended, or the call returns its
\* error and the JoinSet is dropped, which aborts the tasks still running
JoinNext(k, t) ==
    LET j == Joined(t)
    IN  IF j.kind = "ok"
        THEN /\ aggregated' = aggregated \o j.amms
             /\ handles' = RemoveAt(handles, k)
             /\ UNCHANGED <<pc, result>>
        ELSE /\ aggregated' = <<>>
             /\ handles' = <<>>
             /\ pc' = "returned"
             /\ result' = ErrResult(j.cause)

\* A spawned task runs to its end and the orchestrator, which waits in
\* join_next().await, joins it: tasks are joined in the order they complete,
\* and nothing the orchestrator does lies between a completion and its join.
\* The task reads the chain as it is when it runs, which may be later than
\* current_block.
TaskCompletes(k) ==
    /\ pc = "join"
    /\ k \in 1..Len(handles)
    /\ LET r == RunTask(handles[k], call.step)
       IN  /\ JoinNext(k, [handles[k] EXCEPT !.amms = r.amms, !.st = r.st])
           /\ batch_reads' = batch_reads + r.reads
           /\ events' = events \cup (CASE r.st = "panic" -> {"task_panic"}
                                       [] r.st = "err"   -> {"task_error"}
                                       [] OTHER          -> {})
    /\ UNCHANGED <<disk, call, current_block, disk0, writes, last_write, chainVars, enumVars, hydrVars, lifeVars>>

\* an RPC of a task fails: the task returns the error (the `?` of
\* mod.rs:49, 57, 134, 153 and checkpoint.rs:159, 163, 205) and is joined
TaskFails(k) ==
    /\ pc = "join"
    /\ k \in 1..Len(handles)
    /\ IssuesRpc(handles[k], call.step)
    /\ JoinNext(k, [handles[k] EXCEPT !.amms = <<>>, !.st = "err"])
    /\ events' = events \cup {"rpc_error", "task_error"}
    /\ UNCHANGED <<disk, call, current_block, disk0, writes, last_write, batch_reads,
                   chainVars, enumVars, hydrVars, lifeVars>>

\* every task is joined: write the checkpoint (mod.rs:81-89,
\* checkpoint.rs:124-129) and return (mod.rs:94, checkpoint.rs:133).
\* checkpoint_path of sync_amms (Some or None) is first read here, and the
\* model draws it here.  std::fs::write is not atomic: a failed write leaves
\* the old file or a torn one.
Finish ==
    /\ pc = "join"
    /\ handles = <<>>
    /\ pc' = "returned"
    /\ aggregated' = <<>>
    /\ \E path \in (IF call.op = "sync_amms" THEN {"some", "none"} ELSE {"some"}) :
        LET factories == IF call.op = "sync_amms" THEN call.factories ELSE disk0.factories
            ok_result == IF call.op = "sync_amms" THEN OkAmmsBlock(aggregated, current_block)
                         ELSE OkFactoriesAmms(factories, aggregated)
        IN  /\ call' = [call EXCEPT !.path = path]
            /\ IF path = "some"
               THEN \E w \in {"written", "failed", "torn"}, now \in WallClock :
                      /\ disk' = CASE w = "written" ->
                                        ConstructCheckpoint(factories, aggregated,
                                                            current_block, now)
                                   [] w = "failed"  -> disk
                                   [] w = "torn"    -> CorruptCheckpoint
                      /\ last_write' = CASE w = "written" ->
                                              LastWrite(aggregated, current_block)
                                         [] w = "failed"  -> last_write
                                         [] w = "torn"    -> NoWrite
                      /\ result' = IF w = "written" THEN ok_result
                                   ELSE ErrResult("CheckpointError")
                      /\ events' = IF w = "written" THEN events ELSE events \cup {"io_error"}
                      /\ writes' = IF w = "written" THEN writes + 1 ELSE writes
                      /\ ser_steps' = IF w = "written"
                                      THEN [i \in 1..Len(agg_steps) |->
                                               Append(agg_steps[i], "serialize")]
                                      ELSE ser_steps
               ELSE /\ disk' = disk
                    /\ ser_steps' = ser_steps
                    /\ last_write' = last_write
                    /\ result' = ok_result
                    /\ events' = events
                    /\ writes' = writes
    /\ agg_steps' = <<>>
    /\ UNCHANGED <<current_block, handles, disk0, batch_reads, chainVars, enumVars, hydrVars>>

\* the caller has the result of the call; the locals of the call are gone
Return ==
    /\ pc = "returned"
    /\ pc' = "idle"
    /\ call' = NoCall
    /\ current_block' = 0
    /\ result' = NoResult
    /\ events' = {}
    /\ batch_reads' = 0
    /\ disk0' = disk
    /\ UNCHANGED <<disk, handles, aggregated, writes, last_write, chainVars, enumVars, hydrVars, lifeVars>>

Next ==
    \/ MineBlock
    \/ ConstructCheckpointCall
    \/ SyncAmms
    \/ SyncAmmsFromCheckpoint
    \/ \E k \in 1..Len(handles) : TaskCompletes(k)
    \/ \E k \in 1..Len(handles) : TaskFails(k)
    \/ Finish
    \/ Return

Spec == Init /\ [][Next]_vars

(***************************************************************************)
(* The tasks statement by statement: SpecLifecycle runs the same calls as  *)
(* Spec, but a task takes one step per statement of its closure            *)
(*   factory task   mod.rs:45-71          discover, populate, prune, stamp *)
(*   re-hydration   checkpoint.rs:203-212 populate, prune                  *)
(*   log-scan task  checkpoint.rs:158-169 discover, populate, prune        *)
(* and the steps of different tasks interleave.  The chain is the same     *)
(* from the start of a call to its end.                                    *)
(***************************************************************************)
SetTask(k, t) == handles' = [handles EXCEPT ![k] = t]

\* factory.get_all_amms(...).await? (mod.rs:46-48),
\* factory.get_all_pools_from_logs(...).await? (checkpoint.rs:158-160)
LifeDiscover(k) ==
    /\ pc = "join"
    /\ k \in 1..Len(handles)
    /\ handles[k].st = "discover"
    /\ LET d == Discover(handles[k], call.step)
       IN  /\ SetTask(k, [handles[k] EXCEPT !.amms = d.amms, !.st = "populate",
                                            !.steps = Append(@, "discover")])
           /\ batch_reads' = batch_reads + d.reads
    /\ UNCHANGED <<disk, pc, call, current_block, aggregated, result, disk0, writes,
                   last_write, events, chainVars, enumVars, hydrVars, lifeVars>>

\* populate_amms(...).await? (mod.rs:50-57, checkpoint.rs:205),
\* factory.populate_amm_data(...).await? (checkpoint.rs:162-164)
LifePopulate(k) ==
    /\ pc = "join"
    /\ k \in 1..Len(handles)
    /\ handles[k].st = "populate"
    /\ LET t == handles[k]
           r == IF t.kind = "scan" THEN PopulateAmmData(t.factory, t.amms)
                ELSE PopulateAmms(t.amms)
       IN  IF r.st = "ok"
           THEN /\ SetTask(k, [t EXCEPT !.amms = r.amms, !.st = "prune",
                                        !.steps = Append(@, "hydrate")])
                /\ batch_reads' = batch_reads + r.reads
                /\ events' = events
           ELSE /\ SetTask(k, [t EXCEPT !.amms = <<>>, !.st = r.st])
                /\ batch_reads' = batch_reads
                /\ events' = events \cup (IF r.st = "panic" THEN {"task_panic"}
                                          ELSE {"task_error"})
    /\ UNCHANGED <<disk, pc, call, current_block, aggregated, result, disk0, writes,
                   last_write, chainVars, enumVars, hydrVars, lifeVars>>

\* amms = remove_empty_amms(amms) (mod.rs:60, checkpoint.rs:166, 210); the
\* closures of checkpoint.rs end here
LifePrune(k) ==
    /\ pc = "join"
    /\ k \in 1..Len(handles)
    /\ handles[k].st = "prune"
    /\ SetTask(k, [handles[k] EXCEPT !.amms = RemoveEmptyAmms(@),
                                     !.st = IF handles[k].kind = "factory" THEN "stamp"
                                            ELSE "ok",
                                     !.steps = Append(@, "prune")])
    /\ UNCHANGED <<disk, pc, call, current_block, aggregated, result, disk0, writes,
                   last_write, events, batch_reads, chainVars, enumVars, hydrVars, lifeVars>>

\* mod.rs:62-71: the fee loop, entered for a UniswapV2Factory only
LifeStamp(k) ==
    /\ pc = "join"
    /\ k \in 1..Len(handles)
    /\ handles[k].st = "stamp"
    /\ SetTask(k, [handles[k] EXCEPT !.amms = StampFee(handles[k].factory, @),
                                     !.st = "ok",
                                     !.steps = IF handles[k].factory.kind = "v2"
                                               THEN Append(@, "stamp") ELSE @])
    /\ UNCHANGED <<disk, pc, call, current_block, aggregated, result, disk0, writes,
                   last_write, events, batch_reads, chainVars, enumVars, hydrVars, lifeVars>>

\* an RPC of the statement a task is at fails: the `?` returns the error
LifeFail(k) ==
    /\ pc = "join"
    /\ k \in 1..Len(handles)
    /\ handles[k].st \in {"discover", "populate"}
    /\ IssuesRpc(handles[k], call.step)
    /\ SetTask(k, [handles[k] EXCEPT !.amms = <<>>, !.st = "err"])
    /\ events' = events \cup {"rpc_error", "task_error"}
    /\ UNCHANGED <<disk, pc, call, current_block, aggregated, result, disk0, writes,
                   last_write, batch_reads, chainVars, enumVars, hydrVars, lifeVars>>

\* handles.join_next() hands over a task that has ended (mod.rs:75-77,
\* checkpoint.rs:119-121)
LifeJoin(k) ==
    /\ pc = "join"
    /\ k \in 1..Len(handles)
    /\ handles[k].st \in {"ok", "err", "panic"}
    /\ JoinNext(k, handles[k])
    /\ agg_steps' = IF Joined(handles[k]).kind = "ok"
                    THEN agg_steps \o [i \in 1..Len(handles[k].amms) |-> handles[k].steps]
                    ELSE <<>>
    /\ UNCHANGED <<disk, call, current_block, disk0, writes, last_write, events, batch_reads,
                   ser_steps, chainVars, enumVars, hydrVars>>

\* the chain grows between the calls; during a call it stays as it is
LifeMineBlock ==
    /\ pc = "idle"
    /\ MineBlock

LifeNext ==
    \/ LifeMineBlock
    \/ SyncAmms
    \/ SyncAmmsFromCheckpoint
    \/ \E k \in 1..Len(handles) : LifeDiscover(k)
    \/ \E k \in 1..Len(handles) : LifePopulate(k)
    \/ \E k \in 1..Len(handles) : LifePrune(k)
    \/ \E k \in 1..Len(handles) : LifeStamp(k)
    \/ \E k \in 1..Len(handles) : LifeFail(k)
    \/ \E k \in 1..Len(handles) : LifeJoin(k)
    \/ Finish
    \/ Return

SpecLifecycle == Init /\ [][LifeNext]_vars

\* SpecSyncAmms: the calls of sync_amms alone, statement by statement
SyncAmmsNext ==
    \/ LifeMineBlock
    \/ SyncAmms
    \/ \E k \in 1..Len(handles) : LifeDiscover(k)
    \/ \E k \in 1..Len(handles) : LifePopulate(k)
    \/ \E k \in 1..Len(handles) : LifePrune(k)
    \/ \E k \in 1..Len(handles) : LifeStamp(k)
    \/ \E k \in 1..Len(handles) : LifeFail(k)
    \/ \E k \in 1..Len(handles) : LifeJoin(k)
    \/ Finish
    \/ Return

SpecSyncAmms == Init /\ [][SyncAmmsNext]_vars

(***************************************************************************)
(* Registry enumeration step by step: SpecEnum runs                        *)
(* get_all_pairs_via_batched_calls (factory.rs:60-117) for the registry    *)
(* lengths PairsLengths.  A request is the range <<from, to>> it asks for; *)
(* what it returns stands for the addresses allPairs[from..to).            *)
(***************************************************************************)
\* the registry lengths: every length of up to two full slices and a bit,
\* and beyond that the lengths next to a multiple of the slice width
PairsLengths ==
    {n \in 0..MaxPairsLength :
        \/ n <= 2 * PAIRS_STEP + 1
        \/ n % PAIRS_STEP \in {0, 1, PAIRS_STEP - 1}}

\* a loop that never drains at the cap
MustDrainNever(in_flight) == FALSE

\* factory.rs:106: handles.len() == TASK_LIMIT
MustDrain(in_flight) == in_flight = TASK_LIMIT

\* a drain that goes back to spawning after one completion
AfterJoinDrainsOne(at, left) ==
    IF at = "drain" THEN "loop"
    ELSE IF left > 0 THEN at ELSE "done"

\* process_amm_from_requests (factory.rs:123): the while loop goes on until
\* join_next() finds the set empty; then the for loop goes on (factory.rs:107-109)
\* or the function returns (factory.rs:112-116)
AfterJoin(at, left) ==
    IF left > 0 THEN at
    ELSE IF at = "drain" THEN "loop" ELSE "done"

EnumInit ==
    /\ height = 0
    /\ pools = <<>>
    /\ disk = NoCheckpoint
    /\ disk0 = NoCheckpoint
    /\ SyncIdle
    /\ HydrOff
    /\ e_pc = "start"
    /\ pairs_length \in PairsLengths
    /\ e_i = 0
    /\ idx_from = 0
    /\ idx_to = 0
    /\ e_handles = <<>>
    /\ e_requests = <<>>
    /\ e_amms = EmptyBag

\* factory.rs:66-81: all_pairs_length() answers (or fails), the loop is set up
EnumReadLength ==
    /\ e_pc = "start"
    /\ \/ /\ e_pc' = "loop"
          /\ idx_to' = InitIdxTo(pairs_length)
       \/ /\ e_pc' = "failed"
          /\ idx_to' = idx_to
    /\ UNCHANGED <<pairs_length, e_i, idx_from, e_handles, e_requests, e_amms, chainVars, syncVars, hydrVars, lifeVars>>

\* factory.rs:83-110: one iteration: spawn the request for [idx_from, idx_to),
\* move the indices on; at TASK_LIMIT requests in flight drain them before the
\* next iteration
EnumSpawn ==
    /\ e_pc = "loop"
    /\ e_i < pairs_length
    /\ e_handles' = Append(e_handles, <<idx_from, idx_to>>)
    /\ e_requests' = Append(e_requests, <<idx_from, idx_to>>)
    /\ idx_from' = idx_to
    /\ idx_to' = NextIdxTo(idx_to, pairs_length)
    /\ e_i' = e_i + PAIRS_STEP
    /\ e_pc' = IF MustDrain(Len(e_handles) + 1) THEN "drain" ELSE "loop"
    /\ UNCHANGED <<pairs_length, e_amms, chainVars, syncVars, hydrVars, lifeVars>>

\* factory.rs:112: the loop is over, the requests still in flight are drained
EnumLoopEnd ==
    /\ e_pc = "loop"
    /\ e_i >= pairs_length
    /\ e_pc' = IF e_handles = <<>> THEN "done" ELSE "final"
    /\ UNCHANGED <<pairs_length, e_i, idx_from, idx_to, e_handles, e_requests, e_amms,
                   chainVars, syncVars, hydrVars, lifeVars>>

\* process_amm_from_requests (factory.rs:119-134): join_next hands over a
\* request that completed: its addresses are pushed, or its error is returned
\* and the set is dropped
EnumJoin(k) ==
    /\ e_pc \in {"drain", "final"}
    /\ k \in 1..Len(e_handles)
    /\ \/ /\ e_amms' = e_amms (+) SetToBag({e_handles[k]})
          /\ e_handles' = RemoveAt(e_handles, k)
          /\ e_pc' = AfterJoin(e_pc, Len(e_handles) - 1)
       \/ /\ e_amms' = e_amms
          /\ e_handles' = <<>>
          /\ e_pc' = "failed"
    /\ UNCHANGED <<pairs_length, e_i, idx_from, idx_to, e_requests, chainVars, syncVars, hydrVars, lifeVars>>

EnumNext ==
    \/ EnumReadLength
    \/ EnumSpawn
    \/ EnumLoopEnd
    \/ \E k \in 1..Len(e_handles) : EnumJoin(k)

SpecEnum == EnumInit /\ [][EnumNext]_vars

(***************************************************************************)
(* Hydration step by step: SpecHydrate runs one call of a hydration entry  *)
(* point (populate_amms, UniswapV2Factory::populate_amm_data,              *)
(* batch_sync_amms_from_checkpoint) on a slice of n AMMs of variant kind,  *)
(* with the addresses 1..n; the AMM at index odd (0: none) is of variant   *)
(* odd_kind.  A chunk is kept as the addresses it spans.                   *)
(***************************************************************************)
Kinds == {"v2", "v3", "vault"}

Entries == {"populate_amms", "populate_amm_data", "batch_sync_amms_from_checkpoint"}

\* no block number is handed to the batched call (None, or no such argument)
Latest == 0

\* the block_number argument of a call
HydrBlocks == {7}

\* the slice lengths: up to MaxChunks batches, next to a multiple of the
\* batch size
SliceLens(kind) ==
    {n \in 0..(MaxChunks * BatchSize(kind)) :
        \/ n <= 2
        \/ n % BatchSize(kind) \in {0, 1, BatchSize(kind) - 1}}

HydrCalls ==
    UNION {UNION {
        {[entry |-> e, kind |-> kd, n |-> n, odd |-> 0, odd_kind |-> kd, block |-> b] :
            e \in Entries, b \in HydrBlocks}
        \cup
        {[entry |-> e, kind |-> kd, n |-> n, odd |-> o, odd_kind |-> ok, block |-> b] :
            e \in Entries, b \in HydrBlocks,
            o \in (IF n >= 2 THEN {1, n} ELSE {}), ok \in Kinds \ {kd}}
        : n \in SliceLens(kd)} : kd \in Kinds}

\* the slice handed to the entry point
SliceAmms(c) ==
    [i \in 1..c.n |->
        [kind |-> IF i = c.odd THEN c.odd_kind ELSE c.kind, address |-> i,
         token_a |-> ZeroAddress, token_b |-> ZeroAddress, fee |-> 0]]

\* a chunk of a slice and the block number its batched call is given
ChunkOf(chunk, block) ==
    IF chunk = <<>> THEN [from |-> 0, to |-> 0, len |-> 0, block |-> block]
    ELSE [from |-> chunk[1].address, to |-> chunk[Len(chunk)].address,
          len |-> Len(chunk), block |-> block]

\* the block number populate_amms hands to the batched call of a variant:
\* block_number for UniswapV3Pool (mod.rs:148-152), none otherwise
\* (mod.rs:130-133, 167)
BlockParam(kind, block) == IF kind = "v3" THEN block ELSE Latest

HydrInit ==
    /\ height = 0
    /\ pools = <<>>
    /\ disk = NoCheckpoint
    /\ disk0 = NoCheckpoint
    /\ SyncIdle
    /\ EnumOff
    /\ h_pc = "start"
    /\ h_call \in HydrCalls
    /\ h_chunks = <<>>
    /\ h_next = 0
    /\ h_handles = <<>>
    /\ h_updated = EmptyBag
    /\ h_input = {}
    /\ h_spawned = 0
    /\ h_rpcs = 0
    /\ h_result = "none"

\* populate_amms up to the for loop (mod.rs:120-125, 141-143, 161-162, 183-185)
PopulateAmmsStart ==
    /\ h_pc = "start"
    /\ h_call.entry = "populate_amms"
    /\ LET amms == SliceAmms(h_call)
           st   == PopulateAmms(amms).st
       IN  IF st = "ok"
           THEN LET chunks == Chunks(amms, BatchSize(amms[1].kind))
                IN  /\ h_chunks' = [k \in 1..Len(chunks) |->
                            ChunkOf(chunks[k], BlockParam(amms[1].kind, h_call.block))]
                    /\ h_next' = 1
                    /\ h_pc' = "spawn"
                    /\ h_result' = "none"
           ELSE /\ h_chunks' = <<>>
                /\ h_next' = 0
                /\ h_pc' = "done"
                /\ h_result' = IF st = "panic" THEN "panic" ELSE "IncongruentAMMs"
    /\ UNCHANGED <<h_call, h_handles, h_updated, h_input, h_spawned, h_rpcs,
                   chainVars, syncVars, enumVars, lifeVars>>

\* one iteration of `for amm_chunk in amms.chunks(step)` (mod.rs:125-138,
\* 143-157, 162-171): a task is spawned for the chunk; its batched call
\* counts as issued
PopulateAmmsSpawn ==
    /\ h_pc = "spawn"
    /\ h_handles' = Append(h_handles, h_chunks[h_next])
    /\ h_spawned' = h_spawned + 1
    /\ h_rpcs' = h_rpcs + 1
    /\ h_next' = h_next + 1
    /\ h_pc' = IF h_next = Len(h_chunks) THEN "join" ELSE "spawn"
    /\ UNCHANGED <<h_call, h_chunks, h_updated, h_input, h_result, chainVars, syncVars, enumVars, lifeVars>>

\* a task that writes into the caller's slice
TaskWritesInPlace(input, chunk) == input \cup {chunk}

\* what a task of populate_amms leaves of the caller's slice: the task owns
\* amm_chunk.to_vec() (mod.rs:127, 145), amm.clone() (mod.rs:164), and hands
\* that copy back (mod.rs:136, 155, 169); amms is a shared reference
TaskWrites(input, chunk) == input

\* the join loop of populate_amms (mod.rs:175-182): join_next hands over a
\* task that completed; updated_amms is extended with its chunk, or its
\* error is returned and the set is dropped
PopulateAmmsJoin(k) ==
    /\ h_pc = "join"
    /\ k \in 1..Len(h_handles)
    /\ \/ /\ h_updated' = h_updated (+) SetToBag({h_handles[k]})
          /\ h_input' = TaskWrites(h_input, h_handles[k])
          /\ h_handles' = RemoveAt(h_handles, k)
          /\ h_pc' = IF Len(h_handles) > 1 THEN "join" ELSE "done"
          /\ h_result' = IF Len(h_handles) > 1 THEN "none" ELSE "ok"
       \/ /\ h_updated' = EmptyBag
          /\ h_input' = h_input
          /\ h_handles' = <<>>
          /\ h_pc' = "failed"
          /\ h_result' = "rpc_error"
    /\ UNCHANGED <<h_call, h_chunks, h_next, h_spawned, h_rpcs, chainVars, syncVars, enumVars, lifeVars>>

\* UniswapV2Factory::populate_amm_data up to its loop (factory.rs:189-190):
\* no congruence test
PopulateAmmDataStart ==
    /\ h_pc = "start"
    /\ h_call.entry = "populate_amm_data"
    /\ LET chunks == Chunks(SliceAmms(h_call), V2_BATCH)
       IN  /\ h_chunks' = [k \in 1..Len(chunks) |-> ChunkOf(chunks[k], Latest)]
           /\ h_next' = IF chunks = <<>> THEN 0 ELSE 1
           /\ h_pc' = IF chunks = <<>> THEN "done" ELSE "seq"
           /\ h_result' = IF chunks = <<>> THEN "ok" ELSE "none"
    /\ UNCHANGED <<h_call, h_handles, h_updated, h_input, h_spawned, h_rpcs,
                   chainVars, syncVars, enumVars, lifeVars>>

\* one iteration of populate_amm_data (factory.rs:190-192): the batched call
\* for the chunk of chunks_mut is issued and awaited; it fills that chunk of
\* the caller's slice, or fails; nothing but Ok(()) is returned
PopulateAmmDataStep ==
    /\ h_pc = "seq"
    /\ h_rpcs' = h_rpcs + 1
    /\ \/ /\ h_input' = h_input \cup {h_chunks[h_next]}
          /\ h_next' = h_next + 1
          /\ h_pc' = IF h_next = Len(h_chunks) THEN "done" ELSE "seq"
          /\ h_result' = IF h_next = Len(h_chunks) THEN "ok" ELSE "none"
       \/ /\ h_input' = h_input
          /\ h_next' = h_next
          /\ h_pc' = "failed"
          /\ h_result' = "rpc_error"
    /\ UNCHANGED <<h_call, h_chunks, h_handles, h_updated, h_spawned, chainVars, syncVars, enumVars, lifeVars>>

\* batch_sync_amms_from_checkpoint (checkpoint.rs:176-221): amms[0] of an
\* empty vector panics; the tasks are spawned into the caller's JoinSet
BatchSyncCall ==
    /\ h_pc = "start"
    /\ h_call.entry = "batch_sync_amms_from_checkpoint"
    /\ IF h_call.n = 0
       THEN /\ h_result' = "panic"
            /\ h_spawned' = 0
       ELSE LET r == BatchSyncAmmsFromCheckpoint(SliceAmms(h_call), h_call.block)
            IN  /\ h_result' = IF r.st = "ok" THEN "ok" ELSE "IncongruentAMMs"
                /\ h_spawned' = Len(r.tasks)
    /\ h_pc' = "done"
    /\ UNCHANGED <<h_call, h_chunks, h_next, h_handles, h_updated, h_input, h_rpcs,
                   chainVars, syncVars, enumVars, lifeVars>>

HydrNext ==
    \/ PopulateAmmsStart
    \/ PopulateAmmsSpawn
    \/ \E k \in 1..Len(h_handles) : PopulateAmmsJoin(k)
    \/ PopulateAmmDataStart
    \/ PopulateAmmDataStep
    \/ BatchSyncCall

SpecHydrate == HydrInit /\ [][HydrNext]_vars

(***************************************************************************)
(* Properties of the sync orchestrator (Spec).                             *)
(***************************************************************************)
\* the call has returned Ok
Success == pc = "returned" /\ result.kind = "ok"

\* the addresses of a catalog
Addresses(amms) == {amms[k].address : k \in 1..Len(amms)}

\* C1 - non-degeneracy: on every successful return of sync_amms or
\* sync_amms_from_checkpoint every pool of the returned catalog, and of the
\* checkpoint the call wrote, has token_a # 0 and token_b # 0.
NonDegenerate ==
    Success =>
        /\ \A k \in 1..Len(result.amms) :
              result.amms[k].token_a # ZeroAddress /\ result.amms[k].token_b # ZeroAddress
        /\ call.path = "some" =>
              /\ disk.state = "ok"
              /\ \A k \in 1..Len(disk.amms) :
                    disk.amms[k].token_a # ZeroAddress /\ disk.amms[k].token_b # ZeroAddress

\* a sync_amms returned a catalog that is not empty although a pool of one
\* of its factories, created by block B*, holds a zero token: it was pruned
NonDegenerateWitness ==
    /\ Success
    /\ call.op = "sync_amms"
    /\ call.path = "some"
    /\ result.amms # <<>>
    /\ \E i \in 1..Len(pools), k \in 1..Len(call.factories) :
          /\ pools[i].factory = call.factories[k].address
          /\ pools[i].block <= current_block
          /\ pools[i].token_a = ZeroAddress \/ pools[i].token_b = ZeroAddress

\* C2 - no duplicates: in the catalog a successful sync returns no two
\* entries have the same pool address.
NoDuplicates ==
    Success =>
        \A i, j \in 1..Len(result.amms) :
            i # j => result.amms[i].address # result.amms[j].address

\* C3 - all-or-nothing: while tasks are being joined the checkpoint file is
\* as it was before the call, and once a joined task returned an error the
\* sync returns an error, no pools, and the file still is as it was.
AllOrNothing ==
    /\ pc = "join" => disk = disk0
    /\ (pc = "returned" /\ "task_error" \in events) =>
          /\ result.kind = "err"
          /\ result.amms = <<>>
          /\ disk = disk0

\* a resume from a checkpoint re-hydrated a chunk and then a task failed
AllOrNothingWitness ==
    /\ pc = "returned"
    /\ "task_error" \in events
    /\ call.op = "sync_amms_from_checkpoint"
    /\ batch_reads > 0
    /\ disk0.state = "ok"
    /\ disk0.amms # <<>>

\* C4 - after a successful sync with a checkpoint path the file holds the
\* returned catalog, the factory list unchanged (the one passed in, or the
\* stored one for a resume) and block_number = B*, the block read at the
\* start, which sync_amms returns as current_block.
CheckpointMatchesReturn ==
    (Success /\ call.path = "some") =>
        /\ current_block <= height
        /\ IF call.op = "sync_amms"
           THEN /\ disk = Checkpoint(disk.timestamp, current_block, call.factories, result.amms)
                /\ result.block = current_block
           ELSE /\ disk = Checkpoint(disk.timestamp, current_block, disk0.factories, result.amms)
                /\ result.factories = disk0.factories

\* a sync_amms wrote its checkpoint after the chain had moved past B*
CheckpointMatchesReturnWitness ==
    /\ Success
    /\ call.path = "some"
    /\ call.op = "sync_amms"
    /\ result.amms # <<>>
    /\ height > current_block

\* C5 - fee stamping: after a successful sync every constant-product pool of
\* the result that belongs to the constant-product factory has the fee the
\* factory declares.
FeeStamped ==
    Success =>
        \A k \in 1..Len(result.amms) :
            (/\ result.amms[k].kind = "v2"
             /\ result.amms[k].address \in 1..Len(pools)
             /\ pools[result.amms[k].address].factory = V2Factory.address)
            => result.amms[k].fee = V2Factory.fee

\* C7 - empty factory: a sync_amms over the constant-product factory whose
\* registry is empty, with no RPC and no write failing, returns Ok; when it
\* is the only factory the catalog is empty and no batch was read.
EmptyFactorySucceeds ==
    (/\ pc = "returned"
     /\ call.op = "sync_amms"
     /\ V2Factory \in Range(call.factories)
     /\ AllPairs(V2Factory) = <<>>
     /\ "rpc_error" \notin events
     /\ "io_error" \notin events)
    => /\ result.kind = "ok"
       /\ call.factories = <<V2Factory>> => (result.amms = <<>> /\ batch_reads = 0)

ResumePreservesCatalog ==
    (Success /\ call.op = "sync_amms_from_checkpoint") =>
        /\ \A k \in 1..Len(disk0.amms) :
              (/\ ChainTokens(disk0.amms[k].address)[1] # ZeroAddress
               /\ ChainTokens(disk0.amms[k].address)[2] # ZeroAddress)
              => disk0.amms[k].address \in Addresses(result.amms)
        /\ (\A i \in 1..Len(pools) : pools[i].block <= disk0.block_number)
              => Addresses(result.amms) = Addresses(disk0.amms)

\* C10 - resume scan range: the log scan a resume spawns for a stored
\* factory covers exactly the blocks b with checkpoint.block_number < b <= B*.
ResumeScanRange ==
    (pc = "join" /\ call.op = "sync_amms_from_checkpoint") =>
        \A k \in 1..Len(handles) :
            handles[k].kind = "scan" =>
                LET ws == Windows(handles[k].from_block, handles[k].to_block, call.step)
                IN  UNION {ws[w][1]..ws[w][2] : w \in 1..Len(ws)}
                      = {b \in 0..MaxBlock : disk0.block_number < b /\ b <= current_block}

\* what the factory tasks of a sync_amms over factories at block would return
\* on the chain as it is now, every RPC answering
GenesisTasks(factories, block, step) ==
    [k \in 1..Len(factories) |-> RunTask(FactoryTasks(factories, block)[k], step)]

\* C11 - discovery monotonicity: a resume from a checkpoint of an earlier
\* block returns at most as many pools as a genesis sync_amms of the stored
\* factories at the same B*.
DiscoveryMonotone ==
    (/\ Success
     /\ call.op = "sync_amms_from_checkpoint"
     /\ disk0.block_number < current_block
     /\ \A k \in 1..Len(disk0.factories) :
           GenesisTasks(disk0.factories, current_block, call.step)[k].st = "ok")
    => LET g == GenesisTasks(disk0.factories, current_block, call.step)
       IN  Len(Concat([k \in 1..Len(g) |-> g[k].amms])) >= Len(result.amms)

\* C12 - vaults in a checkpoint: a resume from a checkpoint that holds a
\* vault never reaches the join loop, never returns a catalog and leaves the
\* file as it was; unless reading the block number failed it panics.
VaultNeverSilent ==
    (/\ call.op = "sync_amms_from_checkpoint"
     /\ disk0.state = "ok"
     /\ \E k \in 1..Len(disk0.amms) : disk0.amms[k].kind = "vault")
    => /\ pc # "join"
       /\ pc = "returned" =>
            /\ result.kind # "ok"
            /\ result.amms = <<>>
            /\ disk = disk0
            /\ "rpc_error" \notin events => result = PanicResult

\* a resume panicked on a vault after it had spawned a re-hydration task
VaultNeverSilentWitness ==
    /\ pc = "returned"
    /\ call.op = "sync_amms_from_checkpoint"
    /\ result = PanicResult
    /\ "tasks_aborted" \in events
    /\ \E k \in 1..Len(disk0.amms) : disk0.amms[k].kind = "vault"

CheckpointMonotone ==
    (Success /\ call.op = "sync_amms_from_checkpoint") =>
        /\ disk.block_number = current_block
        /\ disk.block_number >= disk0.block_number
        /\ disk.timestamp >= disk0.timestamp

\* C16 - snapshot consistency: the catalog sync_amms returns together with
\* B* holds only pools that existed at block B*.
SnapshotConsistent ==
    (Success /\ call.op = "sync_amms") =>
        \A k \in 1..Len(result.amms) :
            /\ result.amms[k].address \in 1..Len(pools)
            /\ pools[result.amms[k].address].block <= result.block

(***************************************************************************)
(* Properties of the registry enumeration (SpecEnum).                      *)
(***************************************************************************)
\* C6 - enumeration completeness: when get_all_pairs_via_batched_calls
\* returns Ok, every index of [0, N) lies in exactly one requested range
\* [idx_from, idx_to), no range reaches past N, and every index is in the
\* ranges whose addresses were pushed.
EnumerationComplete ==
    e_pc = "done" =>
        /\ \A k \in 1..Len(e_requests) : e_requests[k][2] <= pairs_length
        /\ \A i \in 0..(pairs_length - 1) :
              /\ Cardinality({k \in 1..Len(e_requests) :
                                e_requests[k][1] <= i /\ i < e_requests[k][2]}) = 1
              /\ \E r \in BagToSet(e_amms) : r[1] <= i /\ i < r[2]

\* the requests as a bag
RequestBag == [r \in Range(e_requests) |->
                  Cardinality({k \in 1..Len(e_requests) : e_requests[k] = r})]

\* C17 - bounded fan-out: the get_pairs_batch requests spawned and not yet
\* joined are never more than TASK_LIMIT.
BoundedFanOut == Len(e_handles) <= TASK_LIMIT

\* the in-flight set is at the cap
BoundedFanOutWitness == Len(e_handles) = TASK_LIMIT /\ e_pc = "drain"

\* C18 - drain to completion: whenever the loop is about to spawn, the
\* requests in flight are exactly those spawned since the in-flight set last
\* reached TASK_LIMIT (a set that reached the cap was joined whole before the
\* next spawn); and when the function returns Ok nothing is in flight and
\* the addresses of every request spawned have been pushed.
DrainToCompletion ==
    /\ e_pc = "loop" =>
          LET n == Len(e_requests)
          IN  e_handles = SubSeq(e_requests, n - (n % TASK_LIMIT) + 1, n)
    /\ e_pc = "done" =>
          /\ e_handles = <<>>
          /\ e_amms = RequestBag

\* an enumeration returned Ok after it had drained a full set and spawned again
DrainToCompletionWitness ==
    /\ e_pc = "done"
    /\ Len(e_requests) > TASK_LIMIT

\* C21 - number and width of registry reads: every get_pairs_batch request
\* is over a non-empty range of at most PAIRS_STEP indices, and once the loop
\* is over ceil(pairs_length / PAIRS_STEP) requests were issued.
RegistryReads ==
    /\ \A k \in 1..Len(e_requests) :
          /\ e_requests[k][1] < e_requests[k][2]
          /\ e_requests[k][2] - e_requests[k][1] <= PAIRS_STEP
    /\ e_pc \in {"final", "done"} =>
          Len(e_requests) = (pairs_length + PAIRS_STEP - 1) \div PAIRS_STEP

(***************************************************************************)
(* Properties of the hydration entry points (SpecHydrate).                 *)
(***************************************************************************)
\* C14 - variant homogeneity: an entry point handed a slice with more than
\* one variant returns IncongruentAMMs, having spawned no task and issued
\* no batched RPC.
RejectsMixed ==
    h_call.odd # 0 =>
        /\ h_spawned = 0
        /\ h_rpcs = 0
        /\ h_pc \in {"done", "failed"} => h_result = "IncongruentAMMs"

\* C19 - bounded fan-out in hydration: the hydration tasks spawned and not
\* yet joined are never more than TASK_LIMIT.
HydrationFanOutBounded == Len(h_handles) <= TASK_LIMIT

\* C20 - hydration chunking: populate_amms on a homogeneous slice of n pools
\* makes ceil(n / size) batches of at most size pools (127 for v2, 76 for
\* v3, each v3 call given the target block), consecutive and covering 1..n,
\* and on success updated_amms holds every batch once, one call each.
HydrationChunking ==
    (h_call.entry = "populate_amms" /\ h_pc \in {"spawn", "join", "done"} /\ h_result # "panic"
        /\ h_result # "IncongruentAMMs") =>
        LET size == BatchSize(h_call.kind)
            m    == Len(h_chunks)
        IN  /\ m = (h_call.n + size - 1) \div size
            /\ h_chunks[1].from = 1
            /\ h_chunks[m].to = h_call.n
            /\ \A k \in 1..m :
                  /\ h_chunks[k].len <= size
                  /\ h_chunks[k].len = h_chunks[k].to - h_chunks[k].from + 1
                  /\ h_chunks[k].len >= 1
                  /\ k < m => h_chunks[k + 1].from = h_chunks[k].to + 1
                  /\ h_chunks[k].block = (IF h_call.kind = "v3" THEN h_call.block ELSE Latest)
            /\ h_pc = "done" =>
                  /\ h_handles = <<>>
                  /\ h_rpcs = m
                  /\ h_updated = SetToBag(Range(h_chunks))

\* populate_amms returned Ok for concentrated-liquidity pools in several
\* batches, the last one short
HydrationChunkingWitness ==
    /\ h_call.entry = "populate_amms"
    /\ h_call.kind = "v3"
    /\ h_pc = "done"
    /\ h_result = "ok"
    /\ Len(h_chunks) >= 3
    /\ h_chunks[Len(h_chunks)].len < V3_BATCH

\* C22 (as claimed) - hydration is in place: after a successful populate_amms
\* the caller's slice is hydrated and nothing but a completion signal came
\* back.
HydrationInPlace ==
    (h_call.entry = "populate_amms" /\ h_pc = "done" /\ h_result = "ok") =>
        /\ h_input = Range(h_chunks)
        /\ h_updated = EmptyBag

\* C22 (amended) - populate_amms never writes into the caller's slice, and a
\* successful call hands back updated_amms, a new catalog that holds the
\* hydrated copy of every chunk of the slice once.
HydrationReturnsCopy ==
    h_call.entry = "populate_amms" =>
        /\ h_input = {}
        /\ (h_pc = "done" /\ h_result = "ok") =>
              /\ BagToSet(h_updated) = Range(h_chunks)
              /\ \A c \in Range(h_chunks) : CopiesIn(c, h_updated) = 1

\* populate_amms returned Ok for constant-product pools in several batches
HydrationReturnsCopyWitness ==
    /\ h_call.entry = "populate_amms"
    /\ h_call.kind = "v2"
    /\ h_pc = "done"
    /\ h_result = "ok"
    /\ Len(h_chunks) >= 2

(***************************************************************************)
(* Properties of the tasks' statements (SpecLifecycle).                    *)
(***************************************************************************)
\* the steps of a pool of the catalog from its task to the file: a pool of
\* the checkpoint read is hydrated again and pruned; a pool discovered in
\* this sync is hydrated, pruned and, if constant-product, stamped
StepsRehydrated == <<"hydrate", "prune", "serialize">>
StepsDiscovered(amm) ==
    <<"discover", "hydrate", "prune">>
    \o (IF amm.kind = "v2" THEN <<"stamp">> ELSE <<>>) \o <<"serialize">>

\* C23 - lifecycle ordering: every pool a sync serializes went through
\* discovery, hydration, pruning, fee stamping (constant-product) and
\* serialization in this order, and the file is written only when every
\* spawned task was joined and none had failed.
LifecycleOrder ==
    /\ disk # disk0 =>
          /\ pc = "returned"
          /\ handles = <<>>
          /\ events \cap {"task_error", "task_panic"} = {}
    /\ (pc = "returned" /\ result.kind = "ok" /\ call.path = "some") =>
          /\ Len(ser_steps) = Len(disk.amms)
          /\ \A i \in 1..Len(ser_steps) :
                ser_steps[i] \in {StepsRehydrated, StepsDiscovered(disk.amms[i])}

\* a sequence as a bag
BagOfSeq(s) == [x \in Range(s) |-> Cardinality({i \in 1..Len(s) : s[i] = x})]

\* what sync_amms returns when every task runs to its end undisturbed and the
\* tasks are joined in the order they were spawned
InSpawnOrder(factories, block, step) ==
    Concat([k \in 1..Len(factories) |->
               RunTask(FactoryTasks(factories, block)[k], step).amms])

====
